---- MODULE Spec2Model ----
(***************************************************************************)
(* A model of aws_cost_daily.py (src/pricing.py): one run of the script,   *)
(* from the module-level configuration to the two summary lines.           *)
(*                                                                         *)
(* Text (str) values are sequences of one-character strings, so that       *)
(* parsing, formatting and concatenation are computed and not assumed.     *)
(* Calendar dates are records [y, m, d]; floats are IEEE-754 binary64      *)
(* values held as a sign, a 53-bit significand and a binary exponent.      *)
(***************************************************************************)
EXTENDS Integers, Sequences, FiniteSets, TLC

\* ------------------------------------------------------------------------
\* Bounds of the model
\* ------------------------------------------------------------------------
MaxPeriods == 2
MaxRows == 3

\* ------------------------------------------------------------------------
\* Text
\* ------------------------------------------------------------------------
DigitChars == <<"0", "1", "2", "3", "4", "5", "6", "7", "8", "9">>

IsDigit(c) == \E i \in 1..10 : DigitChars[i] = c

DigitVal(c) == (CHOOSE i \in 1..10 : DigitChars[i] = c) - 1

\* s[i], or "" (no character) past the end of s
At(s, i) == IF i >= 1 /\ i <= Len(s) THEN s[i] ELSE ""

\* str(n) for n >= 0
RECURSIVE IntText(_)
IntText(n) == IF n < 10 THEN <<DigitChars[n + 1]>>
              ELSE IntText(n \div 10) \o <<DigitChars[(n % 10) + 1]>>

\* n written with at least w digits, zero padded (%02d, %04d)
ZeroPad(n, w) == LET t == IntText(n)
                 IN  IF Len(t) >= w THEN t
                     ELSE [i \in 1..w |-> IF i <= w - Len(t) THEN "0"
                                          ELSE t[i - (w - Len(t))]]

\* An environment variable: unset (os.environ.get gives None) or a str
Unset == [set |-> FALSE, s |-> <<>>]
Str(t) == [set |-> TRUE, s |-> t]

\* Mutant of Truthy: "is not None" in place of truthiness
Truthy_NotNone(v) == v.set

\* Python truthiness of os.environ.get(...): None and "" are false
Truthy(v) == v.set /\ v.s # <<>>

\* ------------------------------------------------------------------------
\* datetime: date construction, ordinals, strptime, strftime
\* ------------------------------------------------------------------------
IsLeap(y) == y % 4 = 0 /\ (y % 100 # 0 \/ y % 400 = 0)

DaysInMonth(y, m) == IF m = 2 THEN (IF IsLeap(y) THEN 29 ELSE 28)
                     ELSE IF m \in {4, 6, 9, 11} THEN 30 ELSE 31

DAYS_BEFORE_MONTH == <<0, 31, 59, 90, 120, 151, 181, 212, 243, 273, 304, 334>>

DaysBeforeYear(y) == LET p == y - 1
                     IN  p * 365 + (p \div 4) - (p \div 100) + (p \div 400)

DaysBeforeMonth(y, m) == DAYS_BEFORE_MONTH[m] + (IF m > 2 /\ IsLeap(y) THEN 1 ELSE 0)

\* date.toordinal(): 0001-01-01 is day 1
toordinal(dt) == DaysBeforeYear(dt.y) + DaysBeforeMonth(dt.y, dt.m) + dt.d

\* date.fromordinal(n)
fromordinal(ord) ==
    LET n0   == ord - 1
        n400 == n0 \div 146097
        r400 == n0 % 146097
        n100 == r400 \div 36524
        r100 == r400 % 36524
        n4   == r100 \div 1461
        r4   == r100 % 1461
        n1   == r4 \div 365
        n    == r4 % 365
        year == n400 * 400 + 1 + n100 * 100 + n4 * 4 + n1
    IN  IF n1 = 4 \/ n100 = 4
        THEN [y |-> year - 1, m |-> 12, d |-> 31]
        ELSE LET leap  == n1 = 3 /\ (n4 # 24 \/ n100 = 3)
                 mon0  == (n + 50) \div 32
                 prec0 == DAYS_BEFORE_MONTH[mon0]
                          + (IF mon0 > 2 /\ leap THEN 1 ELSE 0)
                 month == IF prec0 > n THEN mon0 - 1 ELSE mon0
                 dim   == IF month = 2 THEN (IF leap THEN 29 ELSE 28)
                          ELSE IF month \in {4, 6, 9, 11} THEN 30 ELSE 31
                 prec  == IF prec0 > n THEN prec0 - dim ELSE prec0
             IN  [y |-> year, m |-> month, d |-> n - prec + 1]

\* date + timedelta(days=k): OverflowError outside 0001-01-01 .. 9999-12-31
date_add(dt, k) ==
    LET o == toordinal(dt) + k
    IN  IF 0 < o /\ o <= 3652059
        THEN [ok |-> TRUE, date |-> fromordinal(o)]
        ELSE [ok |-> FALSE, date |-> dt]

\* The month field of the format: 1[0-2] | 0[1-9] | [1-9], followed by "-"
MatchMonth(s, p) ==
    IF At(s, p) = "1" /\ At(s, p + 1) \in {"0", "1", "2"} /\ At(s, p + 2) = "-"
    THEN [ok |-> TRUE, val |-> 10 + DigitVal(s[p + 1]), next |-> p + 3]
    ELSE IF At(s, p) = "0" /\ IsDigit(At(s, p + 1)) /\ At(s, p + 1) # "0"
            /\ At(s, p + 2) = "-"
    THEN [ok |-> TRUE, val |-> DigitVal(s[p + 1]), next |-> p + 3]
    ELSE IF IsDigit(At(s, p)) /\ At(s, p) # "0" /\ At(s, p + 1) = "-"
    THEN [ok |-> TRUE, val |-> DigitVal(s[p]), next |-> p + 2]
    ELSE [ok |-> FALSE, val |-> 0, next |-> p]

\* The day field: 3[01] | [12]\d | 0[1-9] | [1-9] | " "[1-9]; first match wins
MatchDay(s, p) ==
    IF At(s, p) = "3" /\ At(s, p + 1) \in {"0", "1"}
    THEN [ok |-> TRUE, val |-> 30 + DigitVal(s[p + 1]), next |-> p + 2]
    ELSE IF At(s, p) \in {"1", "2"} /\ IsDigit(At(s, p + 1))
    THEN [ok |-> TRUE, val |-> 10 * DigitVal(s[p]) + DigitVal(s[p + 1]), next |-> p + 2]
    ELSE IF At(s, p) = "0" /\ IsDigit(At(s, p + 1)) /\ At(s, p + 1) # "0"
    THEN [ok |-> TRUE, val |-> DigitVal(s[p + 1]), next |-> p + 2]
    ELSE IF IsDigit(At(s, p)) /\ At(s, p) # "0"
    THEN [ok |-> TRUE, val |-> DigitVal(s[p]), next |-> p + 1]
    ELSE IF At(s, p) = " " /\ IsDigit(At(s, p + 1)) /\ At(s, p + 1) # "0"
    THEN [ok |-> TRUE, val |-> DigitVal(s[p + 1]), next |-> p + 2]
    ELSE [ok |-> FALSE, val |-> 0, next |-> p]

NoDate == [y |-> 0, m |-> 0, d |-> 0]

\* Mutant of strptime: the day is not checked against the month
strptime_NoDayCheck(s) ==
    IF ~(\A i \in 1..4 : IsDigit(At(s, i))) \/ At(s, 5) # "-"
    THEN [ok |-> FALSE, date |-> NoDate]
    ELSE LET year == 1000 * DigitVal(s[1]) + 100 * DigitVal(s[2])
                     + 10 * DigitVal(s[3]) + DigitVal(s[4])
             mm   == MatchMonth(s, 6)
             dd   == MatchDay(s, mm.next)
         IN  IF mm.ok /\ dd.ok /\ dd.next = Len(s) + 1 /\ year >= 1
             THEN [ok |-> TRUE, date |-> [y |-> year, m |-> mm.val, d |-> dd.val]]
             ELSE [ok |-> FALSE, date |-> NoDate]

\* datetime.datetime.strptime(s, "%Y-%m-%d").date(); ok = FALSE is ValueError
strptime(s) ==
    IF ~(\A i \in 1..4 : IsDigit(At(s, i))) \/ At(s, 5) # "-"
    THEN [ok |-> FALSE, date |-> NoDate]
    ELSE LET year == 1000 * DigitVal(s[1]) + 100 * DigitVal(s[2])
                     + 10 * DigitVal(s[3]) + DigitVal(s[4])
             mm   == MatchMonth(s, 6)
             dd   == MatchDay(s, mm.next)
         IN  IF mm.ok /\ dd.ok /\ dd.next = Len(s) + 1
                /\ year >= 1 /\ dd.val <= DaysInMonth(year, mm.val)
             THEN [ok |-> TRUE, date |-> [y |-> year, m |-> mm.val, d |-> dd.val]]
             ELSE [ok |-> FALSE, date |-> NoDate]

\* date.strftime("%Y-%m-%d") (years of four digits)
strftime(dt) == ZeroPad(dt.y, 4) \o <<"-">> \o ZeroPad(dt.m, 2) \o <<"-">> \o ZeroPad(dt.d, 2)

\* ------------------------------------------------------------------------
\* Natural numbers of any size: sequences of 15-bit limbs, least significant
\* limb first, with no leading (last) zero limb; <<>> is 0
\* ------------------------------------------------------------------------
Base == 2^15

RECURSIVE BFromInt(_)
BFromInt(n) == IF n = 0 THEN <<>> ELSE <<n % Base>> \o BFromInt(n \div Base)

RECURSIVE BToInt(_)
BToInt(a) == IF a = <<>> THEN 0 ELSE a[1] + Base * BToInt(Tail(a))

RECURSIVE BNorm(_)
BNorm(a) == IF a = <<>> THEN a
            ELSE IF a[Len(a)] # 0 THEN a
            ELSE BNorm(SubSeq(a, 1, Len(a) - 1))

Limb(a, i) == IF i >= 1 /\ i <= Len(a) THEN a[i] ELSE 0

IsOdd(a) == Limb(a, 1) % 2 = 1

RECURSIVE AddFrom(_, _, _, _)
AddFrom(a, b, i, c) ==
    IF i > Len(a) /\ i > Len(b) THEN (IF c = 0 THEN <<>> ELSE <<c>>)
    ELSE LET t == Limb(a, i) + Limb(b, i) + c
         IN  <<t % Base>> \o AddFrom(a, b, i + 1, t \div Base)

BAdd(a, b) == AddFrom(a, b, 1, 0)

\* a - b for a >= b
RECURSIVE SubFrom(_, _, _, _)
SubFrom(a, b, i, c) ==
    IF i > Len(a) THEN <<>>
    ELSE LET t == Limb(a, i) - Limb(b, i) - c
         IN  <<t % Base>> \o SubFrom(a, b, i + 1, IF t < 0 THEN 1 ELSE 0)

BSub(a, b) == BNorm(SubFrom(a, b, 1, 0))

\* -1, 0, 1 as a < b, a = b, a > b
BCmp(a, b) ==
    IF Len(a) # Len(b) THEN (IF Len(a) < Len(b) THEN -1 ELSE 1)
    ELSE IF a = b THEN 0
    ELSE LET i == CHOOSE k \in 1..Len(a) :
                      a[k] # b[k] /\ \A j \in (k + 1)..Len(a) : a[j] = b[j]
         IN  IF a[i] < b[i] THEN -1 ELSE 1

\* a * c for 0 < c < Base
RECURSIVE MulFrom(_, _, _, _)
MulFrom(a, c, i, carry) ==
    IF i > Len(a) THEN (IF carry = 0 THEN <<>> ELSE <<carry>>)
    ELSE LET t == a[i] * c + carry
         IN  <<t % Base>> \o MulFrom(a, c, i + 1, t \div Base)

BMulSmall(a, c) == MulFrom(a, c, 1, 0)

\* Long division of a by d, 0 < d < Base, from the most significant limb down
RECURSIVE DivFrom(_, _, _, _)
DivFrom(a, d, i, r) ==
    IF i = 0 THEN [q |-> <<>>, r |-> r]
    ELSE LET t    == Base * r + a[i]
             rest == DivFrom(a, d, i - 1, t % d)
         IN  [q |-> Append(rest.q, t \div d), r |-> rest.r]

BDivSmall(a, d) == LET x == DivFrom(a, d, Len(a), 0)
                   IN  [q |-> BNorm(x.q), r |-> x.r]

\* a * 2^k
BShl(a, k) == IF a = <<>> THEN a
              ELSE [i \in 1..(k \div 15) |-> 0] \o BMulSmall(a, 2^(k % 15))

\* a \div 2^k, and whether a one bit was shifted out
BShr(a, k) ==
    LET w    == k \div 15
        rest == IF w >= Len(a) THEN <<>> ELSE SubSeq(a, w + 1, Len(a))
        dv   == BDivSmall(rest, 2^(k % 15))
    IN  [q |-> dv.q, lost |-> dv.r # 0 \/ \E i \in 1..w : Limb(a, i) # 0]

\* The number of bits of a
BitLen(a) ==
    IF a = <<>> THEN 0
    ELSE 15 * (Len(a) - 1)
         + (CHOOSE k \in 1..15 : 2^(k - 1) <= a[Len(a)] /\ a[Len(a)] < 2^k)

\* ------------------------------------------------------------------------
\* IEEE-754 binary64 (the C double behind Python's float): value
\* (-1)^neg * m * 2^e with m of exactly 53 bits, or m = <<>> for zero.
\* Amounts stay far inside the normal range: no subnormals, inf or NaN.
\* ------------------------------------------------------------------------
FZero(neg) == [neg |-> neg, m |-> <<>>, e |-> 0]

\* big * 2^e (plus a little more when sticky) rounded to nearest, ties to even
FRound(neg, big, e, sticky) ==
    LET L == BitLen(big)
    IN  IF L = 0 THEN FZero(neg)
        ELSE IF L <= 53 THEN [neg |-> neg, m |-> BShl(big, 53 - L), e |-> e - (53 - L)]
        ELSE LET drop == L - 53
                 sh   == BShr(big, drop - 1)
                 kept == BShr(sh.q, 1).q
                 up   == IsOdd(sh.q) /\ (sticky \/ sh.lost \/ IsOdd(kept))
                 m1   == IF up THEN BAdd(kept, <<1>>) ELSE kept
             IN  IF BitLen(m1) = 54
                 THEN [neg |-> neg, m |-> BShr(m1, 1).q, e |-> e + drop + 1]
                 ELSE [neg |-> neg, m |-> m1, e |-> e + drop]

FNeg(a) == [a EXCEPT !.neg = ~a.neg]

\* a + b: the exact sum, rounded once
FAdd(a, b) ==
    IF a.m = <<>> /\ b.m = <<>> THEN FZero(a.neg /\ b.neg)
    ELSE IF a.m = <<>> THEN b
    ELSE IF b.m = <<>> THEN a
    ELSE LET e == IF a.e < b.e THEN a.e ELSE b.e
             A == BShl(a.m, a.e - e)
             B == BShl(b.m, b.e - e)
         IN  IF a.neg = b.neg THEN FRound(a.neg, BAdd(A, B), e, FALSE)
             ELSE LET c == BCmp(A, B)
                  IN  IF c = 0 THEN FZero(FALSE)
                      ELSE IF c > 0 THEN FRound(a.neg, BSub(A, B), e, FALSE)
                      ELSE FRound(b.neg, BSub(B, A), e, FALSE)

FSub(a, b) == FAdd(a, FNeg(b))

\* fabs(a) >= fabs(b)
FAbsGe(a, b) ==
    IF b.m = <<>> THEN TRUE
    ELSE IF a.m = <<>> THEN FALSE
    ELSE IF a.e # b.e THEN a.e > b.e
    ELSE BCmp(a.m, b.m) >= 0

\* ------------------------------------------------------------------------
\* decimal.Decimal of a plain numeral [-]digits[.digits], and float() of it
\* ------------------------------------------------------------------------
RECURSIVE DigitsVal(_, _, _)
DigitsVal(s, i, acc) ==
    IF i > Len(s) THEN acc
    ELSE IF s[i] = "." THEN DigitsVal(s, i + 1, acc)
    ELSE DigitsVal(s, i + 1, 10 * acc + DigitVal(s[i]))

\* Decimal(s): sign, coefficient and number of fraction digits
Decimal(s) ==
    LET neg  == At(s, 1) = "-"
        body == IF neg THEN Tail(s) ELSE s
        dot  == IF \E i \in 1..Len(body) : body[i] = "."
                THEN CHOOSE i \in 1..Len(body) : body[i] = "."
                ELSE Len(body) + 1
        frac == IF dot > Len(body) THEN 0 ELSE Len(body) - dot
    IN  [neg |-> neg, coef |-> DigitsVal(body, 1, 0), scale |-> frac]

\* a \div 10^k, and whether the division left a remainder
RECURSIVE DivPow10(_, _)
DivPow10(a, k) ==
    IF k = 0 THEN [q |-> a, lost |-> FALSE]
    ELSE LET dv   == BDivSmall(a, 10)
             rest == DivPow10(dv.q, k - 1)
         IN  [q |-> rest.q, lost |-> rest.lost \/ dv.r # 0]

\* float(Decimal): the double nearest to coef / 10^scale
float(dec) ==
    IF dec.coef = 0 THEN FZero(dec.neg)
    ELSE LET K  == 53 + 4 * dec.scale
             qr == DivPow10(BShl(BFromInt(dec.coef), K), dec.scale)
         IN  FRound(dec.neg, qr.q, 0 - K, qr.lost)

\* format(x, ".2f"): the decimal nearest to x with two fraction digits,
\* ties to even, from the exact binary value
Format2f(x) ==
    LET M == BMulSmall(x.m, 100)
        n == IF x.m = <<>> THEN 0
             ELSE IF x.e >= 0 THEN BToInt(BShl(M, x.e))
             ELSE LET sh == BShr(M, (0 - x.e) - 1)
                      ip == BShr(sh.q, 1).q
                      up == IsOdd(sh.q) /\ (sh.lost \/ IsOdd(ip))
                  IN  BToInt(ip) + (IF up THEN 1 ELSE 0)
    IN  (IF x.neg THEN <<"-">> ELSE <<>>)
        \o IntText(n \div 100) \o <<".">> \o ZeroPad(n % 100, 2)

\* ------------------------------------------------------------------------
\* Literals of the script
\* ------------------------------------------------------------------------
OUTPUT_DIR == <<"o", "u", "t", "p", "u", "t">>
FILE_STEM == <<"a", "w", "s", "_", "c", "o", "s", "t", "s", "_">>
JSON == <<"j", "s", "o", "n">>
CSV == <<"c", "s", "v">>
TO == <<"_", "t", "o", "_">>
DEFAULT_PREFIX == <<"a", "w", "s", "-", "c", "o", "s", "t", "s", "/">>
USD == <<"USD">>

\* sum() over floats. Up to CPython 3.11 it adds from left to right; from
\* 3.12 on it carries a Neumaier compensation term. The script pins no
\* interpreter, so a run may do either. sum([]) is the int 0, which
\* format() converts to 0.0.
RECURSIVE SumNaive(_, _, _)
SumNaive(xs, i, acc) ==
    IF i > Len(xs) THEN acc ELSE SumNaive(xs, i + 1, FAdd(acc, xs[i]))

RECURSIVE SumNeumaier(_, _, _, _)
SumNeumaier(xs, i, acc, c) ==
    IF i > Len(xs) THEN (IF c.m # <<>> THEN FAdd(acc, c) ELSE acc)
    ELSE LET x == xs[i]
             t == FAdd(acc, x)
             k == IF FAbsGe(acc, x) THEN FAdd(FSub(acc, t), x)
                  ELSE FAdd(FSub(x, t), acc)
         IN  SumNeumaier(xs, i + 1, t, FAdd(c, k))

py_sum(xs, compensated) ==
    IF compensated THEN SumNeumaier(xs, 1, FZero(FALSE), FZero(FALSE))
    ELSE SumNaive(xs, 1, FZero(FALSE))

\* ------------------------------------------------------------------------
\* Paths and keys
\* ------------------------------------------------------------------------
\* s.rstrip("/")
RECURSIVE rstrip(_)
rstrip(s) == IF s # <<>> /\ s[Len(s)] = "/" THEN rstrip(SubSeq(s, 1, Len(s) - 1)) ELSE s

\* os.path.basename(p): what follows the last "/"
basename(p) ==
    IF \E i \in 1..Len(p) : p[i] = "/"
    THEN LET k == CHOOSE i \in 1..Len(p) :
                      p[i] = "/" /\ \A j \in (i + 1)..Len(p) : p[j] # "/"
         IN  SubSeq(p, k + 1, Len(p))
    ELSE p

\* os.path.join("output", f"aws_costs_{label}.<ext>")
output_file(label, ext) ==
    OUTPUT_DIR \o <<"/">> \o FILE_STEM \o label \o <<".">> \o ext

\* f"{PREFIX.rstrip('/')}/{os.path.basename(file)}"
s3_key(prefix, file) == rstrip(prefix) \o <<"/">> \o basename(file)

\* ------------------------------------------------------------------------
\* get_dates
\* ------------------------------------------------------------------------
NoWindow == [start |-> <<>>, end |-> <<>>, label |-> <<>>]

Raise(e) == [err |-> e, window |-> NoWindow]
Return(start, end, label) ==
    [err |-> "", window |-> [start |-> start, end |-> end, label |-> label]]

\* Mutant of Resolve: the end bound is the last day itself
Resolve_EndInclusive(s, e, label) == Return(strftime(s), strftime(e), label)

\* The window from s to the day after e, or the error of the addition
Resolve(s, e, label) ==
    LET e1 == date_add(e, 1)
    IN  IF ~e1.ok THEN Raise("OverflowError")
        ELSE Return(strftime(s), strftime(e1.date), label)

\* Mutant of get_dates: the range is looked at before the single date
get_dates_RangeFirst(date, start, end, now) ==
    IF Truthy(start) /\ Truthy(end)
    THEN LET s == strptime(start.s)
             e == strptime(end.s)
         IN  IF ~s.ok \/ ~e.ok THEN Raise("ValueError")
             ELSE Resolve(s.date, e.date, start.s \o TO \o end.s)
    ELSE IF Truthy(date)
    THEN LET d == strptime(date.s)
         IN  IF ~d.ok THEN Raise("ValueError")
             ELSE Resolve(d.date, d.date, date.s)
    ELSE LET yest == date_add(now, -1).date
         IN  Resolve(yest, yest, strftime(yest))

\* Mutant of get_dates: "START or END" in place of "START and END"
get_dates_EitherBound(date, start, end, now) ==
    IF Truthy(date)
    THEN LET d == strptime(date.s)
         IN  IF ~d.ok THEN Raise("ValueError")
             ELSE Resolve(d.date, d.date, date.s)
    ELSE IF Truthy(start) \/ Truthy(end)
    THEN LET s == strptime(start.s)
             e == strptime(end.s)
         IN  IF ~s.ok \/ ~e.ok THEN Raise("ValueError")
             ELSE Resolve(s.date, e.date, start.s \o TO \o end.s)
    ELSE LET yest == date_add(now, -1).date
         IN  Resolve(yest, yest, strftime(yest))

get_dates(date, start, end, now) ==
    IF Truthy(date)
    THEN LET d == strptime(date.s)
         IN  IF ~d.ok THEN Raise("ValueError")
             ELSE Resolve(d.date, d.date, date.s)
    ELSE IF Truthy(start) /\ Truthy(end)
    THEN LET s == strptime(start.s)
             e == strptime(end.s)
         IN  IF ~s.ok \/ ~e.ok THEN Raise("ValueError")
             ELSE Resolve(s.date, e.date, start.s \o TO \o end.s)
    ELSE LET yest == date_add(now, -1).date
         IN  Resolve(yest, yest, strftime(yest))

\* Whether get_dates reads the clock (date.today())
ReadsClock(date, start, end) == ~Truthy(date) /\ ~(Truthy(start) /\ Truthy(end))

\* ------------------------------------------------------------------------
\* normalize
\* ------------------------------------------------------------------------
\* A response is [has, periods]: has = FALSE when the "ResultsByTime" key is
\* absent. A period is [Start, has, Groups]: has = FALSE when "Groups" is
\* absent. A group is [Key, Amount, Unit].
Row(period, g) ==
    [date |-> period.Start, service |-> g.Key,
     amount |-> float(Decimal(g.Amount)), unit |-> g.Unit]

\* Mutant of PeriodRows: the groups of a period come out last first
PeriodRows_Reversed(period) ==
    IF period.has
    THEN [j \in 1..Len(period.Groups) |->
             Row(period, period.Groups[Len(period.Groups) + 1 - j])]
    ELSE <<>>

PeriodRows(period) ==
    IF period.has THEN [j \in 1..Len(period.Groups) |-> Row(period, period.Groups[j])]
    ELSE <<>>

RECURSIVE RowsFrom(_, _)
RowsFrom(periods, i) ==
    IF i > Len(periods) THEN <<>>
    ELSE PeriodRows(periods[i]) \o RowsFrom(periods, i + 1)

normalize(r) == IF r.has THEN RowsFrom(r.periods, 1) ELSE <<>>

\* ------------------------------------------------------------------------
\* Inputs: what the environment sets and what the billing service answers
\* ------------------------------------------------------------------------
LEAP_EVE == <<"2", "0", "2", "4", "-", "0", "2", "-", "2", "8">>
YEAR_END == <<"2", "0", "2", "3", "-", "1", "2", "-", "3", "1">>
UNPADDED == <<"2", "0", "2", "4", "-", "1", "-", "5">>
LAST_DAY == <<"9", "9", "9", "9", "-", "1", "2", "-", "3", "1">>
NO_SUCH_DAY == <<"2", "0", "2", "4", "-", "0", "2", "-", "3", "0">>
SHORT_YEAR == <<"2", "4", "-", "0", "1", "-", "0", "5">>

DateTexts == {LEAP_EVE, YEAR_END, UNPADDED, LAST_DAY, NO_SUCH_DAY, SHORT_YEAR}

\* A date selector: unset, empty, or one of the texts
Selectors == {Unset, Str(<<>>)} \cup {Str(t) : t \in DateTexts}

\* The days date.today() may give
Todays == {[y |-> 2024, m |-> 3, d |-> 1], [y |-> 2024, m |-> 1, d |-> 1],
           [y |-> 2023, m |-> 3, d |-> 1]}

BUCKET_NAME == <<"b", "k", "t">>
Buckets == {Unset, Str(<<>>), Str(BUCKET_NAME)}

\* COST_S3_PREFIX unset gives the default
Prefixes == {DEFAULT_PREFIX, <<"c", "/", "/">>}

EC2 == [Key |-> <<"AmazonEC2">>, Amount |-> <<"1", "2", ".", "3", "4", "0", "0">>, Unit |-> USD]
S3 == [Key |-> <<"AmazonS3">>, Amount |-> <<"0", ".", "5", "0", "0", "0">>, Unit |-> USD]
TAX == [Key |-> <<"Tax">>, Amount |-> <<"-", "0", ".", "1", "2", "5", "0">>, Unit |-> <<"EUR">>]
LAMBDA_FN == [Key |-> <<"AWSLambda">>, Amount |-> <<"0", ".", "0", "0", "5", "0">>, Unit |-> USD]

GroupChoices == {EC2, TAX, LAMBDA_FN}

\* The Start of the i-th daily period of a response
PeriodStart(i) == <<"2", "0", "2", "4", "-", "0", "1", "-">> \o ZeroPad(i, 2)

\* Responses of n periods holding the groups of flat, cut[i] of them in the
\* first i periods; an empty period carries an empty "Groups" list when
\* listed, and no "Groups" key otherwise
ResponseOf(flat, n, cut, listed) ==
    [has |-> TRUE,
     periods |-> [i \in 1..n |->
        LET lo == IF i = 1 THEN 0 ELSE cut[i - 1]
        IN  [Start |-> PeriodStart(i),
             has |-> listed \/ cut[i] > lo,
             Groups |-> SubSeq(flat, lo + 1, cut[i])]]]

NoResults == [has |-> FALSE, periods |-> <<>>]

\* The ways to cut k groups into n periods: cut[i] groups in the first i
Cuts(n, k) == {cut \in [1..n -> 0..k] :
                  /\ \A i \in 1..(n - 1) : cut[i] <= cut[i + 1]
                  /\ n > 0 => cut[n] = k}

Flats == UNION {[1..k -> GroupChoices] : k \in 0..MaxRows}

Responses ==
    {NoResults} \cup
    UNION {UNION {UNION {{ResponseOf(flat, n, cut, listed) : listed \in BOOLEAN}
                         : cut \in Cuts(n, Len(flat))}
                  : n \in (IF Len(flat) = 0 THEN 0 ELSE 1)..MaxPeriods}
           : flat \in Flats}

\* The response of the worked example
Example == [has |-> TRUE,
            periods |-> <<[Start |-> PeriodStart(1), has |-> TRUE, Groups |-> <<EC2, S3>>]>>]

\* ------------------------------------------------------------------------
\* State
\* ------------------------------------------------------------------------
VARIABLES
    BUCKET,     \* os.environ.get("COST_S3_BUCKET")
    PREFIX,     \* os.environ.get("COST_S3_PREFIX", "aws-costs/")
    DATE,       \* os.environ.get("COST_DATE")
    START,      \* os.environ.get("COST_START")
    END,        \* os.environ.get("COST_END")
    pd,         \* whether "import pandas" succeeded
    service,    \* the answer the billing service gives to a query
    pc,         \* where the run stands
    err,        \* the exception that ended the run, "" when none
    calls,      \* the calls made to the outside, in order
    today,      \* what date.today() returned, NoDate when it was not called
    window,     \* what get_dates returned, NoWindow before
    request,    \* the TimePeriod of the billing query, NoWindow before
    rows,       \* what normalize returned
    files,      \* the files of this run under output/
    uploads,    \* the upload_file calls, in order, each with its outcome
    out         \* the lines printed

vars == <<BUCKET, PREFIX, DATE, START, END, pd, service, pc, err, calls, today,
          window, request, rows, files, uploads, out>>

config == <<BUCKET, PREFIX, DATE, START, END, pd, service>>

Fresh ==
    /\ pc = "import"
    /\ err = ""
    /\ calls = <<>>
    /\ today = NoDate
    /\ window = NoWindow
    /\ request = NoWindow
    /\ rows = <<>>
    /\ files = {}
    /\ uploads = <<>>
    /\ out = <<>>

\* Every date configuration against the worked example, and every response
\* against one date configuration
Init ==
    /\ Fresh
    /\ pd \in BOOLEAN
    /\ \/ /\ BUCKET \in Buckets
          /\ PREFIX \in Prefixes
          /\ DATE \in Selectors
          /\ START \in Selectors
          /\ END \in Selectors
          /\ service = Example
       \/ /\ BUCKET = Str(BUCKET_NAME)
          /\ PREFIX = DEFAULT_PREFIX
          /\ DATE = Str(LEAP_EVE)
          /\ START = Unset
          /\ END = Unset
          /\ service \in Responses

\* ------------------------------------------------------------------------
\* The run
\* ------------------------------------------------------------------------
Abort(e) == pc' = "aborted" /\ err' = e

\* Lines 33-43: the module-level configuration
LoadConfig ==
    /\ pc = "import"
    /\ IF ~Truthy(BUCKET) THEN Abort("RuntimeError")
       ELSE pc' = "client" /\ err' = err
    /\ UNCHANGED <<config, calls, today, window, request, rows, files, uploads, out>>

\* main, line 121: boto3_ce_client()
ClientOk ==
    /\ pc = "client"
    /\ pc' = "dates"
    /\ calls' = Append(calls, "ce_client")
    /\ UNCHANGED <<config, err, today, window, request, rows, files, uploads, out>>

ClientFail ==
    /\ pc = "client"
    /\ Abort("SessionError")
    /\ calls' = Append(calls, "ce_client")
    /\ UNCHANGED <<config, today, window, request, rows, files, uploads, out>>

\* main, line 122: get_dates()
ResolveDates ==
    /\ pc = "dates"
    /\ \E now \in Todays :
         LET r == get_dates(DATE, START, END, now)
         IN  /\ today' = IF ReadsClock(DATE, START, END) THEN now ELSE today
             /\ window' = r.window
             /\ IF r.err # "" THEN Abort(r.err)
                ELSE pc' = "query" /\ err' = err
    /\ UNCHANGED <<config, calls, request, rows, files, uploads, out>>

\* main, line 123: get_cost_by_service(client, start, end)
QueryOk ==
    /\ pc = "query"
    /\ pc' = "normalize"
    /\ calls' = Append(calls, "get_cost_and_usage")
    /\ request' = [window EXCEPT !.label = <<>>]
    /\ UNCHANGED <<config, err, today, window, rows, files, uploads, out>>

QueryFail ==
    /\ pc = "query"
    /\ Abort("ClientError")
    /\ calls' = Append(calls, "get_cost_and_usage")
    /\ request' = [window EXCEPT !.label = <<>>]
    /\ UNCHANGED <<config, today, window, rows, files, uploads, out>>

\* main, line 124: normalize(resp)
Normalize ==
    /\ pc = "normalize"
    /\ pc' = "save_json"
    /\ rows' = normalize(service)
    /\ UNCHANGED <<config, err, calls, today, window, request, files, uploads, out>>

json_file == output_file(window.label, JSON)
csv_file == output_file(window.label, CSV)

File(path, content, complete) ==
    [path |-> path, rows |-> content, complete |-> complete]

\* main, lines 126-130: os.makedirs and save_json(rows, json_file)
SaveJsonOk ==
    /\ pc = "save_json"
    /\ pc' = "save_csv"
    /\ calls' = calls \o <<"makedirs", "write_json">>
    /\ files' = files \cup {File(json_file, rows, TRUE)}
    /\ UNCHANGED <<config, err, today, window, request, rows, uploads, out>>

\* makedirs fails, or open fails, or the write stops halfway
SaveJsonFail ==
    /\ pc = "save_json"
    /\ Abort("OSError")
    /\ \/ /\ calls' = Append(calls, "makedirs")
          /\ files' = files
       \/ /\ calls' = calls \o <<"makedirs", "write_json">>
          /\ files' \in {files, files \cup {File(json_file, <<>>, FALSE)}}
    /\ UNCHANGED <<config, today, window, request, rows, uploads, out>>

\* main, line 131: save_csv(rows, csv_file)
SaveCsvSkip ==
    /\ pc = "save_csv"
    /\ ~pd
    /\ pc' = "upload_json"
    /\ UNCHANGED <<config, err, calls, today, window, request, rows, files, uploads, out>>

SaveCsvOk ==
    /\ pc = "save_csv"
    /\ pd
    /\ pc' = "upload_json"
    /\ calls' = Append(calls, "write_csv")
    /\ files' = files \cup {File(csv_file, rows, TRUE)}
    /\ UNCHANGED <<config, err, today, window, request, rows, uploads, out>>

SaveCsvFail ==
    /\ pc = "save_csv"
    /\ pd
    /\ Abort("OSError")
    /\ calls' = Append(calls, "write_csv")
    /\ files' \in {files, files \cup {File(csv_file, <<>>, FALSE)}}
    /\ UNCHANGED <<config, today, window, request, rows, uploads, out>>

\* upload(local, bucket, key): boto3_s3_client().upload_file(local, bucket, key)
Upload(local, ok) ==
    /\ calls' = Append(calls, "upload_file")
    /\ uploads' = Append(uploads, [local |-> local, bucket |-> BUCKET.s,
                                   key |-> s3_key(PREFIX, local), ok |-> ok])

\* Mutant of UploadJsonFail: the failure is swallowed and the run goes on
UploadJsonFail_Swallowed ==
    /\ pc = "upload_json"
    /\ Upload(json_file, FALSE)
    /\ pc' = "upload_csv"
    /\ UNCHANGED <<config, err, today, window, request, rows, files, out>>

\* main, lines 133-134
UploadJsonOk ==
    /\ pc = "upload_json"
    /\ Upload(json_file, TRUE)
    /\ pc' = "upload_csv"
    /\ UNCHANGED <<config, err, today, window, request, rows, files, out>>

UploadJsonFail ==
    /\ pc = "upload_json"
    /\ Upload(json_file, FALSE)
    /\ Abort("S3UploadFailedError")
    /\ UNCHANGED <<config, today, window, request, rows, files, out>>

\* Mutant of UploadCsvSkip: the CSV file is uploaded without asking for pd
UploadCsv_Always ==
    /\ pc = "upload_csv"
    /\ ~pd
    /\ Upload(csv_file, TRUE)
    /\ pc' = "report"
    /\ UNCHANGED <<config, err, today, window, request, rows, files, out>>

\* main, lines 135-137
UploadCsvSkip ==
    /\ pc = "upload_csv"
    /\ ~pd
    /\ pc' = "report"
    /\ UNCHANGED <<config, err, calls, today, window, request, rows, files, uploads, out>>

UploadCsvOk ==
    /\ pc = "upload_csv"
    /\ pd
    /\ Upload(csv_file, TRUE)
    /\ pc' = "report"
    /\ UNCHANGED <<config, err, today, window, request, rows, files, out>>

UploadCsvFail ==
    /\ pc = "upload_csv"
    /\ pd
    /\ Upload(csv_file, FALSE)
    /\ Abort("S3UploadFailedError")
    /\ UNCHANGED <<config, today, window, request, rows, files, out>>

\* main, lines 139-142
Amounts(rs) == [i \in 1..Len(rs) |-> rs[i].amount]

\* Mutant of ReportUnit: the unit of the last record
ReportUnit_Last(rs) == IF rs # <<>> THEN rs[Len(rs)].unit ELSE USD

ReportUnit(rs) == IF rs # <<>> THEN rs[1].unit ELSE USD

UploadedLine == <<"Uploaded billing for ">> \o window.label \o <<" -> s3://">>
                \o BUCKET.s \o <<"/">> \o PREFIX

TotalLine(total, unit) == <<"Total = ">> \o Format2f(total) \o <<" ">> \o unit

Report ==
    /\ pc = "report"
    /\ pc' = "done"
    /\ \E compensated \in BOOLEAN :
         out' = out \o <<UploadedLine,
                         TotalLine(py_sum(Amounts(rows), compensated), ReportUnit(rows))>>
    /\ UNCHANGED <<config, err, calls, today, window, request, rows, files, uploads>>

Next ==
    \/ LoadConfig
    \/ ClientOk
    \/ ClientFail
    \/ ResolveDates
    \/ QueryOk
    \/ QueryFail
    \/ Normalize
    \/ SaveJsonOk
    \/ SaveJsonFail
    \/ SaveCsvSkip
    \/ SaveCsvOk
    \/ SaveCsvFail
    \/ UploadJsonOk
    \/ UploadJsonFail
    \/ UploadCsvSkip
    \/ UploadCsvOk
    \/ UploadCsvFail
    \/ Report

Spec == Init /\ [][Next]_vars

\* ------------------------------------------------------------------------
\* The calendar and date texts as the claims speak of them, defined apart
\* from the operators above
\* ------------------------------------------------------------------------
MonthDays(y, m) ==
    IF m \in {1, 3, 5, 7, 8, 10, 12} THEN 31
    ELSE IF m # 2 THEN 30
    ELSE IF (y % 400 = 0) \/ (y % 4 = 0 /\ y % 100 # 0) THEN 29 ELSE 28

NextDay(dt) ==
    IF dt.d < MonthDays(dt.y, dt.m) THEN [dt EXCEPT !.d = dt.d + 1]
    ELSE IF dt.m < 12 THEN [y |-> dt.y, m |-> dt.m + 1, d |-> 1]
    ELSE [y |-> dt.y + 1, m |-> 1, d |-> 1]

PrevDay(dt) ==
    IF dt.d > 1 THEN [dt EXCEPT !.d = dt.d - 1]
    ELSE IF dt.m > 1 THEN [y |-> dt.y, m |-> dt.m - 1, d |-> MonthDays(dt.y, dt.m - 1)]
    ELSE [y |-> dt.y - 1, m |-> 12, d |-> 31]

\* Days are ordered by year, then month, then day
Before(a, b) ==
    \/ a.y < b.y
    \/ a.y = b.y /\ a.m < b.m
    \/ a.y = b.y /\ a.m = b.m /\ a.d < b.d

Two(n) == <<DigitChars[(n \div 10) + 1], DigitChars[(n % 10) + 1]>>

\* YYYY-MM-DD
IsoText(dt) ==
    (IF dt.y > 9999 THEN <<DigitChars[(dt.y \div 10000) + 1]>> ELSE <<>>)
    \o Two((dt.y \div 100) % 100) \o Two(dt.y % 100)
    \o <<"-">> \o Two(dt.m) \o <<"-">> \o Two(dt.d)

\* The ways a month or a day may be written: 07, 7, and for a day " 7"
FieldTexts(n, blank) ==
    {Two(n)} \cup (IF n < 10 THEN {<<DigitChars[n + 1]>>} ELSE {})
             \cup (IF n < 10 /\ blank THEN {<<" ", DigitChars[n + 1]>>} ELSE {})

\* The day a text names, read by cutting it at its dashes; NoDate when it
\* names none
DateOf(s) ==
    IF Len(s) < 8 \/ Len(s) > 10 \/ At(s, 5) # "-" \/ ~(\A i \in 1..4 : IsDigit(At(s, i)))
    THEN NoDate
    ELSE IF ~(\E p \in {7, 8} : s[p] = "-")
    THEN NoDate
    ELSE LET p  == CHOOSE q \in {7, 8} : s[q] = "-" /\ (q = 8 => s[7] # "-")
             yy == 1000 * DigitVal(s[1]) + 100 * DigitVal(s[2])
                   + 10 * DigitVal(s[3]) + DigitVal(s[4])
             mt == SubSeq(s, 6, p - 1)
             dt == SubSeq(s, p + 1, Len(s))
             ms == {m \in 1..12 : mt \in FieldTexts(m, FALSE)}
             ds == {d \in 1..31 : dt \in FieldTexts(d, TRUE)}
         IN  IF yy = 0 \/ ms = {} \/ ds = {} THEN NoDate
             ELSE LET mm == CHOOSE m \in ms : TRUE
                      dd == CHOOSE d \in ds : TRUE
                  IN  IF dd > MonthDays(yy, mm) THEN NoDate
                      ELSE [y |-> yy, m |-> mm, d |-> dd]

\* A selector that is configured with a text that names a day
ValidDate(v) == v.set /\ DateOf(v.s) # NoDate

\* A selector that is configured with a text that names no day
Malformed(v) == v.set /\ v.s # <<>> /\ DateOf(v.s) = NoDate

LastDate == [y |-> 9999, m |-> 12, d |-> 31]

\* The three modes of get_dates
DateMode == Truthy(DATE)
RangeMode == ~Truthy(DATE) /\ Truthy(START) /\ Truthy(END)
DefaultMode == ~Truthy(DATE) /\ ~(Truthy(START) /\ Truthy(END))

\* get_dates was called, and returned or raised
DatesReturned == window # NoWindow
DatesRaised == pc = "aborted" /\ err \in {"ValueError", "OverflowError"}
DatesCalled == DatesReturned \/ DatesRaised

Window(first, last, label) ==
    [start |-> IsoText(first), end |-> IsoText(NextDay(last)), label |-> label]

LEAP_DAY == <<"2", "0", "2", "4", "-", "0", "2", "-", "2", "9">>

\* ------------------------------------------------------------------------
\* C1
\* ------------------------------------------------------------------------
\* C1 as claimed: whenever COST_DATE is a valid date D, get_dates returns the
\* window [D, D + 1 day) with label D, whatever COST_START and COST_END are.
C1_AnyValidDate ==
    (DatesCalled /\ ValidDate(DATE))
        => window = Window(DateOf(DATE.s), DateOf(DATE.s), DATE.s)

\* C1 as amended: whenever COST_DATE is a valid date D other than 9999-12-31,
\* get_dates returns the window [D, D + 1 day) with label D, whatever
\* COST_START and COST_END are.
C1_DateBeforeLast ==
    (DatesCalled /\ ValidDate(DATE) /\ DateOf(DATE.s) # LastDate)
        => window = Window(DateOf(DATE.s), DateOf(DATE.s), DATE.s)

C1_Witness ==
    /\ DATE = Str(LEAP_EVE)
    /\ START = Str(SHORT_YEAR)
    /\ END = Str(YEAR_END)
    /\ window.end = LEAP_DAY
    /\ request.start = LEAP_EVE

\* ------------------------------------------------------------------------
\* C2
\* ------------------------------------------------------------------------
\* C2 as claimed: whenever COST_DATE is not set and COST_START = S and
\* COST_END = E are valid dates, get_dates returns [S, E + 1 day) with label
\* "S_to_E".
C2_AnyValidRange ==
    (DatesCalled /\ ~Truthy(DATE) /\ ValidDate(START) /\ ValidDate(END))
        => window = Window(DateOf(START.s), DateOf(END.s),
                           START.s \o <<"_", "t", "o", "_">> \o END.s)

\* C2 as amended: the same, for E other than 9999-12-31.
C2_RangeEndBeforeLast ==
    (DatesCalled /\ ~Truthy(DATE) /\ ValidDate(START) /\ ValidDate(END)
        /\ DateOf(END.s) # LastDate)
        => window = Window(DateOf(START.s), DateOf(END.s),
                           START.s \o <<"_", "t", "o", "_">> \o END.s)

C2_Witness ==
    /\ ~DATE.set
    /\ START = Str(YEAR_END)
    /\ END = Str(LEAP_EVE)
    /\ window.start = YEAR_END
    /\ window.end = LEAP_DAY
    /\ request.end = window.end

\* ------------------------------------------------------------------------
\* C3
\* ------------------------------------------------------------------------
\* C3: every window get_dates returns has its start strictly before its end,
\* and so has every window the billing query is issued with.
C3_StartBeforeEnd ==
    /\ DatesReturned => Before(DateOf(window.start), DateOf(window.end))
    /\ request # NoWindow => Before(DateOf(request.start), DateOf(request.end))

\* ------------------------------------------------------------------------
\* C10
\* ------------------------------------------------------------------------
\* C10: whenever COST_DATE is not set and COST_START and COST_END are not
\* both set, get_dates returns [yesterday, today) with yesterday's date as
\* label, one calendar day long; a lone COST_START or COST_END is never
\* parsed and changes nothing.
C10_DefaultIsYesterday ==
    (DatesCalled /\ DefaultMode)
        => /\ today \in Todays
           /\ window = [start |-> IsoText(PrevDay(today)), end |-> IsoText(today),
                        label |-> IsoText(PrevDay(today))]
           /\ NextDay(DateOf(window.start)) = DateOf(window.end)

C10_Witness ==
    /\ ~DATE.set
    /\ START = Str(SHORT_YEAR)
    /\ ~END.set
    /\ pc = "normalize"
    /\ today = [y |-> 2024, m |-> 3, d |-> 1]
    /\ request.start = LEAP_DAY

\* ------------------------------------------------------------------------
\* C4
\* ------------------------------------------------------------------------
\* The periods of a response and the groups of a period, absent keys read
\* as empty
PeriodsOf(r) == IF r.has THEN r.periods ELSE <<>>
GroupsOf(p) == IF p.has THEN p.Groups ELSE <<>>

\* The (period, group) pairs of a response
Pairs(r) == UNION {{<<i, j>> : j \in 1..Len(GroupsOf(PeriodsOf(r)[i]))}
                   : i \in 1..Len(PeriodsOf(r))}

\* How many pairs come no later than (i, j) in the order of the response
Position(r, i, j) ==
    Cardinality({q \in Pairs(r) : q[1] < i \/ (q[1] = i /\ q[2] <= j)})

\* The binary64 value nearest to each amount of the responses
Double(a) ==
    CASE a = EC2.Amount -> [neg |-> FALSE, m |-> <<18350, 30146, 14417, 197>>, e |-> -49]
      [] a = S3.Amount -> [neg |-> FALSE, m |-> <<0, 0, 0, 128>>, e |-> -53]
      [] a = TAX.Amount -> [neg |-> TRUE, m |-> <<0, 0, 0, 128>>, e |-> -55]
      [] a = LAMBDA_FN.Amount -> [neg |-> FALSE, m |-> <<5243, 3932, 27525, 163>>, e |-> -60]

AfterNormalize == pc \in {"save_json", "save_csv", "upload_json", "upload_csv",
                          "report", "done"}

\* C4: normalize returns one record per (period, group) pair of the
\* response, in the order of the response, each with the period's start
\* date and the group's service key, amount and unit; nothing is sorted,
\* merged or dropped, and a response without periods or groups gives no
\* record.
C4_OneRowPerGroupInOrder ==
    AfterNormalize =>
        /\ Len(rows) = Cardinality(Pairs(service))
        /\ \A q \in Pairs(service) :
             LET p == PeriodsOf(service)[q[1]]
                 g == GroupsOf(p)[q[2]]
             IN  rows[Position(service, q[1], q[2])]
                   = [date |-> p.Start, service |-> g.Key,
                      amount |-> Double(g.Amount), unit |-> g.Unit]

C4_Witness ==
    /\ pc = "save_json"
    /\ Len(service.periods) = 2
    /\ service.periods[1].Groups = <<LAMBDA_FN, EC2>>
    /\ service.periods[2].Groups = <<TAX>>
    /\ Len(rows) = 3
    /\ rows[3].service = TAX.Key

\* ------------------------------------------------------------------------
\* C5
\* ------------------------------------------------------------------------
Written == {f.path : f \in {g \in files : g.complete}}
Uploaded == {uploads[k].local : k \in {i \in 1..Len(uploads) : uploads[i].ok}}
Attempted == {uploads[k].local : k \in 1..Len(uploads)}

\* C5: a run that ends normally has uploaded exactly the files it wrote: the
\* JSON file always, the CSV file if and only if the tabular library is
\* there; and no upload of a file is attempted before that file is written.
C5_UploadsAreTheWrittenFiles ==
    /\ Attempted \subseteq Written
    /\ pc = "done" =>
         /\ Uploaded = {f.path : f \in files}
         /\ Written = {json_file} \cup (IF pd THEN {csv_file} ELSE {})
         /\ json_file # csv_file

C5_Witness ==
    /\ pc = "done"
    /\ pd
    /\ Len(uploads) = 2
    /\ Cardinality(files) = 2

\* ------------------------------------------------------------------------
\* C6
\* ------------------------------------------------------------------------
\* C6: an upload failure ends the run: no upload is attempted twice, a
\* failed JSON upload is not followed by the CSV upload, and neither summary
\* line is printed unless every attempted upload succeeded.
C6_UploadFailureIsFatal ==
    /\ \A i, j \in 1..Len(uploads) : i # j => uploads[i].local # uploads[j].local
    /\ \A i \in 1..Len(uploads) :
         ~uploads[i].ok => /\ i = Len(uploads)
                           /\ pc = "aborted"
                           /\ err = "S3UploadFailedError"
                           /\ out = <<>>
    /\ out # <<>> => /\ Len(out) = 2
                     /\ Len(uploads) = (IF pd THEN 2 ELSE 1)
                     /\ \A i \in 1..Len(uploads) : uploads[i].ok

C6_Witness ==
    /\ pc = "aborted"
    /\ Len(uploads) = 1
    /\ ~uploads[1].ok
    /\ pd
    /\ csv_file \in Written

\* ------------------------------------------------------------------------
\* C7
\* ------------------------------------------------------------------------
\* C7: when COST_S3_BUCKET is absent or empty the process fails at startup:
\* no client is created, no window resolved, no query issued, no file
\* written and no upload attempted.
C7_MissingBucketFailsFirst ==
    (~BUCKET.set \/ BUCKET.s = <<>>) =>
        /\ pc \in {"import", "aborted"}
        /\ pc = "aborted" => err = "RuntimeError"
        /\ calls = <<>>
        /\ today = NoDate
        /\ window = NoWindow
        /\ request = NoWindow
        /\ files = {}
        /\ uploads = <<>>
        /\ out = <<>>

C7_Witness ==
    /\ BUCKET = Str(<<>>)
    /\ DATE = Str(LEAP_EVE)
    /\ pc = "aborted"
    /\ err = "RuntimeError"

\* ------------------------------------------------------------------------
\* C8
\* ------------------------------------------------------------------------
NothingSent == request = NoWindow /\ files = {} /\ uploads = <<>>

\* C8 as claimed: when any configured date selector holds a string that is
\* not a valid date, the run aborts with a parse error: no query is issued,
\* no file written, nothing uploaded.
C8_AnyMalformedSelector ==
    (\E v \in {DATE, START, END} : Malformed(v)) =>
        /\ NothingSent
        /\ DatesCalled => pc = "aborted" /\ err = "ValueError"

\* The selectors get_dates reads: COST_DATE when it is not empty, else
\* COST_START and COST_END when neither is empty
ReadSelectors ==
    IF Truthy(DATE) THEN {DATE}
    ELSE IF Truthy(START) /\ Truthy(END) THEN {START, END}
    ELSE {}

\* C8 as amended: when a date selector that get_dates reads holds a string
\* that is not a valid date, get_dates raises the parse error and the run
\* aborts: no window is resolved, no query issued, no file written, nothing
\* uploaded or printed.
C8_ReadSelectorMalformed ==
    (\E v \in ReadSelectors : Malformed(v)) =>
        /\ NothingSent
        /\ window = NoWindow
        /\ out = <<>>
        /\ pc \in {"import", "client", "dates", "aborted"}
        /\ pc = "aborted" => err \in {"RuntimeError", "SessionError", "ValueError"}
        /\ DatesCalled => err = "ValueError"

C8_Witness ==
    /\ ~DATE.set
    /\ START = Str(LEAP_EVE)
    /\ END = Str(NO_SUCH_DAY)
    /\ pc = "aborted"
    /\ err = "ValueError"

\* ------------------------------------------------------------------------
\* C9
\* ------------------------------------------------------------------------
\* Each amount of the responses in ten-thousandths
TenThousandths(a) ==
    CASE a = EC2.Amount -> 123400
      [] a = S3.Amount -> 5000
      [] a = TAX.Amount -> -1250
      [] a = LAMBDA_FN.Amount -> 50

RECURSIVE ExactTotal(_, _)
ExactTotal(r, S) ==
    IF S = {} THEN 0
    ELSE LET q == CHOOSE x \in S : TRUE
         IN  TenThousandths(GroupsOf(PeriodsOf(r)[q[1]])[q[2]].Amount)
             + ExactTotal(r, S \ {q})

\* The hundredths a printed total stands for
Hundredths(t) ==
    IF At(t, 1) = "-" THEN 0 - DigitsVal(Tail(t), 1, 0) ELSE DigitsVal(t, 1, 0)

Abs(n) == IF n < 0 THEN 0 - n ELSE n

\* The total and the unit of the second line printed
PrintedTotal == SubSeq(out[2], 2, Len(out[2]) - 2)
PrintedUnit == <<out[2][Len(out[2])]>>

\* C9: the total printed is the sum of the amounts of all records, 0.00
\* when there are none; the unit printed is the first record's, and USD
\* when there are none; the worked example prints 12.84 USD.
C9_TotalAndUnit ==
    pc = "done" =>
        /\ Len(out) = 2
        /\ out[2][1] = "Total = "
        /\ PrintedTotal \in {Format2f(py_sum(Amounts(rows), c)) : c \in BOOLEAN}
        /\ Abs(100 * Hundredths(PrintedTotal) - ExactTotal(service, Pairs(service))) <= 50
        /\ PrintedUnit = (IF Pairs(service) = {} THEN <<"USD">>
                          ELSE GroupsOf(PeriodsOf(service)[
                                   CHOOSE i \in 1..Len(PeriodsOf(service)) :
                                      /\ GroupsOf(PeriodsOf(service)[i]) # <<>>
                                      /\ \A k \in 1..(i - 1) :
                                           GroupsOf(PeriodsOf(service)[k]) = <<>>])[1].Unit)
        /\ Pairs(service) = {} => PrintedTotal = <<"0", ".", "0", "0">>
        /\ service = Example =>
             out[2] = <<"Total = ", "1", "2", ".", "8", "4", " ", "USD">>

C9_Witness ==
    /\ pc = "done"
    /\ Len(rows) = 3
    /\ rows[1].unit = <<"EUR">>
    /\ rows[3].unit = <<"USD">>
    /\ out[2] = <<"Total = ", "1", "2", ".", "2", "2", " ", "EUR">>

C9_WitnessExample ==
    /\ pc = "done"
    /\ service = Example
    /\ out[2] = <<"Total = ", "1", "2", ".", "8", "4", " ", "USD">>

C9_WitnessEmpty ==
    /\ pc = "done"
    /\ rows = <<>>
    /\ out[2] = <<"Total = ", "0", ".", "0", "0", " ", "USD">>

====
